---- MODULE Spec2Model ----
(***************************************************************************)
(* OptimalStopSim: the look-then-leap simulation engine                    *)
(* (optimal_stopping.py, simulate_optimal_stopping), the statistics        *)
(* aggregator (utils.py, calculate_statistics) and the run-then-summarize  *)
(* sequence of the page (main.py, lines 104-106).                          *)
(*                                                                         *)
(* Numbers.  A sequence value v stands for the float v / (MaxVal + 1) in   *)
(* [0, 1); only ratios and comparisons of values are taken, and those do   *)
(* not depend on the common scale.  look_ratio and threshold_ratio are     *)
(* carried in hundredths (look_pct, thr_pct), as main.py produces the      *)
(* threshold (slider value / 100.0).  The quotient current / look_max is   *)
(* compared exactly (cross-multiplied).                                    *)
(***************************************************************************)
EXTENDS Integers, Sequences, FiniteSets

\* ---- bounds of the model ----
MaxItems == 3
MaxSims == 2
MaxVal == 1

\* ---- program constants ----
\* main.py line 80: the threshold slider's percentage is divided by 100.0
Percent == 100
\* optimal_stopping.py line 31: -np.inf, the look_max of an empty look phase.
\* Values are >= 0, and look_max is only ever tested by look_max > 0.
NegInf == -1

\* The ratios handed to the engine, in hundredths: one below the valid range,
\* both ends of [0,1], one inside, one above.
Ratios == {-50, 0, 50, 100, 150}

Values == 0..MaxVal

VARIABLES
    n_items,        \* argument of simulate_optimal_stopping
    n_simulations,  \* argument
    look_pct,       \* look_ratio * 100
    thr_pct,        \* threshold_ratio * 100
    pc,             \* "run": in the for loop of line 23; "returned": results
                    \* bound at main.py 104; "summarized": stats bound at 106;
                    \* "raised": an exception left the run-then-summarize code
    k,              \* iterations of the loop of line 23 started so far
    sequence,       \* the sequence of the latest iteration (line 25)
    results,        \* the list of line 21
    df,             \* the DataFrame returned at line 56
    stats,          \* the dict returned by calculate_statistics
    raised          \* the exception raised, "none" if none

vars == <<n_items, n_simulations, look_pct, thr_pct, pc, k, sequence, results,
          df, stats, raised>>

\* ---- Python / numpy helpers ----

\* int(x) of a float x = a / b (b > 0): truncation toward zero
IntTrunc(a, b) == IF a >= 0 THEN a \div b ELSE -((-a) \div b)

\* sequence[i] with Python's indexing: 0-based, negative indices count from the
\* end.  Defined for -Len(seq) <= i < Len(seq).
Item(seq, i) == IF i >= 0 THEN seq[i + 1] ELSE seq[Len(seq) + i + 1]

\* np.max of a non-empty array
RECURSIVE ArrayMax(_)
ArrayMax(seq) ==
    IF Len(seq) = 1 THEN seq[1]
    ELSE LET m == ArrayMax(Tail(seq)) IN IF seq[1] >= m THEN seq[1] ELSE m

\* sequence[:stop] for stop > 0
Prefix(seq, stop) == SubSeq(seq, 1, IF stop < Len(seq) THEN stop ELSE Len(seq))

\* ---- simulate_optimal_stopping, one iteration ----

\* line 28: look_phase = int(n_items * look_ratio)
LookPhase(n, lpct) == IntTrunc(n * lpct, Percent)

\* LookMax with the look phase never empty: np.max(sequence[:max(look_phase, 1)])
LookMaxAtLeastOne(seq, look_phase) ==
    ArrayMax(Prefix(seq, IF look_phase > 1 THEN look_phase ELSE 1))

\* line 31: look_max = np.max(sequence[:look_phase]) if look_phase > 0 else -np.inf
LookMax(seq, look_phase) ==
    IF look_phase > 0 THEN ArrayMax(Prefix(seq, look_phase)) ELSE NegInf

\* line 40: relative_value = current_value / look_max if look_max > 0 else 0,
\* as the fraction <<numerator, denominator>>
RelativeValue(current_value, look_max) ==
    IF look_max > 0 THEN <<current_value, look_max>> ELSE <<0, 1>>

\* MeetsThreshold with the strict comparison of the classic policy:
\* relative_value > threshold_ratio
MeetsThresholdStrict(rv, tpct) == rv[1] * Percent > tpct * rv[2]

\* MeetsThreshold with the comparison turned round:
\* relative_value <= threshold_ratio
MeetsThresholdFlipped(rv, tpct) == rv[1] * Percent <= tpct * rv[2]

\* line 43: relative_value >= threshold_ratio
MeetsThreshold(rv, tpct) == rv[1] * Percent >= tpct * rv[2]

\* lines 37-46: the for loop from index i on.  broke: the loop ended by the
\* break of line 46, at index at; otherwise the range was exhausted.
RECURSIVE ScanFrom(_, _, _, _, _)
ScanFrom(seq, i, n, look_max, tpct) ==
    IF i >= n THEN [broke |-> FALSE, at |-> n]
    ELSE IF MeetsThreshold(RelativeValue(Item(seq, i), look_max), tpct)
         THEN [broke |-> TRUE, at |-> i]
         ELSE ScanFrom(seq, i + 1, n, look_max, tpct)

Scan(seq, n, lpct, tpct) ==
    ScanFrom(seq, LookPhase(n, lpct), n, LookMax(seq, LookPhase(n, lpct)), tpct)

\* lines 34-35 and 44-45: the selected position
SelectedPos(seq, n, lpct, tpct) ==
    LET s == Scan(seq, n, lpct, tpct) IN IF s.broke THEN s.at ELSE n - 1

\* Outcome with a 1-based position
OutcomeOneBased(seq, n, lpct, tpct) ==
    LET selected_pos == SelectedPos(seq, n, lpct, tpct)
        selected_value == Item(seq, selected_pos)
    IN  [position |-> selected_pos + 1,
         value |-> selected_value,
         is_best |-> (selected_value = ArrayMax(seq)),
         best_possible |-> ArrayMax(seq)]

\* lines 49-54: the dict appended to results
Outcome(seq, n, lpct, tpct) ==
    LET selected_pos == SelectedPos(seq, n, lpct, tpct)
        selected_value == Item(seq, selected_pos)
    IN  [position |-> selected_pos,
         value |-> selected_value,
         is_best |-> (selected_value = ArrayMax(seq)),
         best_possible |-> ArrayMax(seq)]

\* Record with the list rebuilt instead of extended: results = [...]
RecordOverwrite(rs, outcome) == <<outcome>>

\* line 49: results.append(...)
Record(rs, outcome) == Append(rs, outcome)

\* ---- pandas ----

\* pd.DataFrame(list of dicts): the columns are the keys of the dicts
DataFrame(rs) ==
    [columns |-> UNION {DOMAIN rs[j] : j \in 1..Len(rs)}, rows |-> rs]

NoFrame == [columns |-> {}, rows |-> <<>>]

\* ---- calculate_statistics ----

\* the column lookups of lines 29-38, in evaluation order
Lookups ==
    <<"is_best", "position", "value", "best_possible", "failure_to_find",
      "position", "value", "best_possible", "value", "best_possible">>

MissingLookups(frame) ==
    {j \in 1..Len(Lookups) : Lookups[j] \notin frame.columns}

FirstMissing(frame) ==
    Lookups[CHOOSE j \in MissingLookups(frame) :
                \A j2 \in MissingLookups(frame) : j <= j2]

RECURSIVE CountTrue(_, _)
CountTrue(rows, col) ==
    IF rows = <<>> THEN 0
    ELSE (IF rows[1][col] THEN 1 ELSE 0) + CountTrue(Tail(rows), col)

RECURSIVE Sum(_, _)
Sum(rows, col) ==
    IF rows = <<>> THEN 0 ELSE rows[1][col] + Sum(Tail(rows), col)

\* Series.mean() as the fraction [num / den]; nan for an empty Series
Mean(total, count) == [nan |-> count = 0, num |-> total, den |-> count]

\* lines 27-41.  [error |-> "KeyError", key] when a column lookup fails;
\* otherwise the rates of lines 29, 30 and 32 (the value ratios and the
\* medians of lines 31 and 35-38 are not carried).
calculate_statistics(frame) ==
    IF MissingLookups(frame) # {}
    THEN [error |-> "KeyError", key |-> FirstMissing(frame)]
    ELSE [error |-> "none", key |-> "",
          success_rate |-> Mean(CountTrue(frame.rows, "is_best"), Len(frame.rows)),
          avg_position |-> Mean(Sum(frame.rows, "position"), Len(frame.rows)),
          failure_rate |-> Mean(CountTrue(frame.rows, "failure_to_find"),
                                Len(frame.rows))]

NoStats == [error |-> "none", key |-> ""]

\* ---- the state machine ----

Init ==
    /\ n_items \in -1..MaxItems
    /\ n_simulations \in 0..MaxSims
    /\ look_pct \in Ratios
    /\ thr_pct \in Ratios
    /\ pc = "run"
    /\ k = 0
    /\ sequence = <<>>
    /\ results = <<>>
    /\ df = NoFrame
    /\ stats = NoStats
    /\ raised = "none"

\* line 25 with n_items < 0: np.random.uniform raises ValueError
TrialValueError ==
    /\ pc = "run" /\ k < n_simulations
    /\ n_items < 0
    /\ k' = k + 1
    /\ pc' = "raised"
    /\ raised' = "ValueError"
    /\ UNCHANGED <<n_items, n_simulations, look_pct, thr_pct, sequence,
                   results, df, stats>>

\* lines 25-35 with n_items = 0: sequence[-1] of an empty array raises IndexError
TrialIndexError ==
    /\ pc = "run" /\ k < n_simulations
    /\ n_items = 0
    /\ k' = k + 1
    /\ sequence' = <<>>
    /\ pc' = "raised"
    /\ raised' = "IndexError"
    /\ UNCHANGED <<n_items, n_simulations, look_pct, thr_pct, results, df, stats>>

\* lines 23-54: one iteration of the loop
Trial ==
    /\ pc = "run" /\ k < n_simulations
    /\ n_items >= 1
    /\ \E seq \in [1..n_items -> Values] :
          /\ sequence' = seq
          /\ results' = Record(results, Outcome(seq, n_items, look_pct, thr_pct))
    /\ k' = k + 1
    /\ UNCHANGED <<n_items, n_simulations, look_pct, thr_pct, pc, df, stats, raised>>

\* line 56 and main.py line 104: the loop is over, the DataFrame is returned
Return ==
    /\ pc = "run" /\ k >= n_simulations
    /\ df' = DataFrame(results)
    /\ pc' = "returned"
    /\ UNCHANGED <<n_items, n_simulations, look_pct, thr_pct, k, sequence,
                   results, stats, raised>>

\* main.py line 106: stats = calculate_statistics(results)
Summarize ==
    /\ pc = "returned"
    /\ LET s == calculate_statistics(df) IN
          IF s.error = "none"
          THEN /\ stats' = s
               /\ pc' = "summarized"
               /\ raised' = raised
          ELSE /\ stats' = stats
               /\ pc' = "raised"
               /\ raised' = s.error
    /\ UNCHANGED <<n_items, n_simulations, look_pct, thr_pct, k, sequence,
                   results, df>>

Next == TrialValueError \/ TrialIndexError \/ Trial \/ Return \/ Summarize

Spec == Init /\ [][Next]_vars

\* ---- vocabulary of the properties ----

\* the parameter ranges of spec section 4.1
ValidInputs ==
    /\ n_items >= 1
    /\ n_simulations >= 1
    /\ 0 <= look_pct /\ look_pct <= Percent
    /\ thr_pct >= 0

\* an iteration has completed and its sequence and record are in the state
TrialRan == n_items >= 1 /\ k >= 1 /\ Len(results) >= 1

Last == results[Len(results)]

look_phase_length == LookPhase(n_items, look_pct)

\* relative_value >= threshold_ratio for the item at 0-based index i, written
\* from the wording of the properties: sequence[i] / look_max, or 0 when
\* look_max <= 0
Qualifies(i) ==
    LET look_max == LookMax(sequence, look_phase_length) IN
    IF look_max <= 0 THEN 0 >= thr_pct
    ELSE Item(sequence, i) * Percent >= thr_pct * look_max

\* the selection-phase indices whose item meets the threshold
Qualifying == {i \in look_phase_length..(n_items - 1) : Qualifies(i)}

SmallestQualifying == CHOOSE i \in Qualifying : \A j \in Qualifying : i <= j

\* calculate_statistics has been called (main.py line 106)
SummarizeCalled ==
    pc = "summarized" \/ (pc = "raised" /\ raised \notin {"ValueError", "IndexError"})

\* ---- C1 ----
\* C1: when some selection-phase item meets the threshold, the recorded
\* position is the smallest index in look_phase_length..n_items-1 that meets
\* it (so no earlier selection-phase item meets it and the scan stopped
\* there), and the recorded value is sequence[position].
C1_FirstAccepted ==
    (TrialRan /\ Qualifying # {}) =>
        /\ Last.position = SmallestQualifying
        /\ \A i \in look_phase_length..(Last.position - 1) : ~Qualifies(i)
        /\ Last.value = Item(sequence, Last.position)

\* a trial with a positive look_max that passed over a selection-phase item
\* and accepted a later one
C1_Witness ==
    /\ TrialRan /\ ValidInputs
    /\ LookMax(sequence, look_phase_length) > 0
    /\ Qualifying # {}
    /\ Last.position > look_phase_length
    /\ Last.position = SmallestQualifying

\* ---- C2 ----
\* C2: each outcome carries a failed field; it is true, with position
\* n_items - 1 and value sequence[n_items - 1], when no selection-phase item
\* met the threshold, and false when an item was accepted.
C2_FailedRecorded ==
    (ValidInputs /\ TrialRan) =>
        /\ "failed" \in DOMAIN Last
        /\ Last.failed = (Qualifying = {})
        /\ (Qualifying = {} =>
               /\ Last.position = n_items - 1
               /\ Last.value = Item(sequence, n_items - 1))

\* ---- C3 ----
\* C3: with valid inputs the run ends and returns a DataFrame of exactly
\* n_simulations rows, each iteration having appended exactly one record.
\* Termination is stated by its variant: while the loop runs no exception has
\* been raised, k <= n_simulations and a step is enabled, and every step of
\* the loop either completes one iteration (k and the length of results both
\* grow by one) or is the return, taken at k = n_simulations.
C3_OneRecordPerTrial ==
    /\ [](ValidInputs =>
            /\ Len(results) = k
            /\ k <= n_simulations
            /\ (pc = "run" => raised = "none" /\ ENABLED (Trial \/ Return))
            /\ (pc # "run" => Len(df.rows) = n_simulations))
    /\ [][(ValidInputs /\ pc = "run") =>
            \/ /\ pc' = "run"
               /\ k' = k + 1
               /\ Len(results') = Len(results) + 1
            \/ /\ pc' = "returned"
               /\ k = n_simulations
               /\ df'.rows = results]_vars

\* a returned run of several trials whose last one ended by fallback and whose
\* first one ended at another position
C3_Witness ==
    /\ ValidInputs /\ pc = "returned"
    /\ n_simulations >= 2 /\ Len(df.rows) = n_simulations
    /\ Qualifying = {}
    /\ df.rows[1].position # Last.position

\* ---- C4 ----
\* C4: with valid inputs every outcome has 0 <= position < n_items and
\* value <= best_possible, and best_possible is the maximum of the sequence.
C4_PositionAndValueBounds ==
    ValidInputs =>
        /\ \A j \in 1..Len(results) :
              /\ 0 <= results[j].position /\ results[j].position < n_items
              /\ results[j].value <= results[j].best_possible
        /\ (TrialRan =>
              /\ \A i \in 1..n_items : sequence[i] <= Last.best_possible
              /\ \E i \in 1..n_items : sequence[i] = Last.best_possible)

\* a fallback selection at the last index whose value is below the maximum
C4_Witness ==
    /\ ValidInputs /\ TrialRan
    /\ Qualifying = {}
    /\ Last.position = n_items - 1
    /\ Last.value < Last.best_possible

\* ---- C5 ----
\* C5: with an invalid parameter no iteration is started, no sequence is drawn
\* and no record is produced, and the call ends with InvalidParameterError.
C5_InvalidRejected ==
    ~ValidInputs =>
        /\ k = 0 /\ sequence = <<>> /\ results = <<>>
        /\ (pc # "run" => raised = "InvalidParameterError")

\* ---- C6 ----
\* C6: after run-then-summarize the summary exists, its failure_rate is the
\* number of outcomes with the failure field true over the number of outcomes,
\* and every outcome record carries the field the aggregator reads.
C6_FailureRate ==
    (ValidInputs /\ SummarizeCalled) =>
        /\ pc = "summarized"
        /\ \A j \in 1..Len(df.rows) : "failure_to_find" \in DOMAIN df.rows[j]
        /\ stats.failure_rate.den = Len(df.rows)
        /\ stats.failure_rate.num =
              Cardinality({j \in 1..Len(df.rows) : df.rows[j].failure_to_find})

\* ---- C7 ----
\* C7: calculate_statistics on a frame of zero rows (what the engine returns
\* for no simulations, its other arguments being in range) fails with
\* EmptyInputError and with nothing else, and leaves the frame as it was.
C7_EmptyInput ==
    (/\ n_items >= 1 /\ 0 <= look_pct /\ look_pct <= Percent /\ thr_pct >= 0
     /\ SummarizeCalled /\ Len(df.rows) = 0) =>
        /\ pc = "raised" /\ raised = "EmptyInputError"
        /\ df = DataFrame(results)

\* ---- C8 ----
\* C8: with n_items = 1 and otherwise valid inputs every outcome has
\* position 0, is_best true and failed false.
C8_SingleItem ==
    (ValidInputs /\ n_items = 1) =>
        \A j \in 1..Len(results) :
            /\ results[j].position = 0
            /\ results[j].is_best
            /\ "failed" \in DOMAIN results[j]
            /\ ~results[j].failed

\* ---- C9 ----
\* C9: on the same sequence, n_items and look_ratio, if the scan accepts an
\* item under threshold_ratio, it accepts one under every lower threshold
\* t >= 0.
C9_ThresholdMonotone ==
    (TrialRan /\ Scan(sequence, n_items, look_pct, thr_pct).broke) =>
        \A t \in Ratios :
            (0 <= t /\ t <= thr_pct) =>
                Scan(sequence, n_items, look_pct, t).broke

\* a sequence accepted under the threshold in force, and accepted earlier
\* under a lower one
C9_Witness ==
    /\ TrialRan /\ ValidInputs
    /\ Scan(sequence, n_items, look_pct, thr_pct).broke
    /\ \E t \in Ratios :
          /\ 0 <= t /\ t < thr_pct
          /\ Scan(sequence, n_items, look_pct, t).at
                < Scan(sequence, n_items, look_pct, thr_pct).at

\* ---- C10 ----
\* C10: with valid inputs and an empty look phase, look_max is minus infinity
\* and every item's relative_value is 0; threshold 0 accepts the first item
\* (position 0), any threshold > 0 accepts none and the outcome is the
\* fallback at n_items - 1.
C10_EmptyLookPhase ==
    (ValidInputs /\ TrialRan /\ look_phase_length = 0) =>
        /\ LookMax(sequence, look_phase_length) = NegInf
        /\ \A i \in 0..(n_items - 1) :
              RelativeValue(Item(sequence, i),
                            LookMax(sequence, look_phase_length)) = <<0, 1>>
        /\ (thr_pct = 0 => Last.position = 0)
        /\ (thr_pct > 0 =>
              /\ ~Scan(sequence, n_items, look_pct, thr_pct).broke
              /\ Last.position = n_items - 1)

\* an empty look phase over several items, a positive threshold, a first item
\* that is the largest, and the fallback taken at the last index
C10_Witness ==
    /\ ValidInputs /\ TrialRan
    /\ look_phase_length = 0 /\ n_items >= 2 /\ thr_pct > 0
    /\ sequence[1] > 0 /\ sequence[1] = Last.best_possible
    /\ Last.position = n_items - 1

====
